---- MODULE Spec2Model ----
(***************************************************************************)
(* A model of main.py: the V2State value class (construction through       *)
(* __new__, the __setattr__ guard, get_price) and the V2Pool history       *)
(* wrapper (__init__, get_dataframe, add_state) over a Polars DataFrame.   *)
(*                                                                         *)
(* Python values: None is the string "None"; a str is a sequence of        *)
(* one-character strings, so that str.lower() is computed character by     *)
(* character; a datetime is a natural number, datetime.min being 0; an     *)
(* instance is its attribute dictionary, a function from attribute names   *)
(* to values whose DOMAIN is the set of attributes the instance has.       *)
(* A DataFrame is a record of column names, column dtypes and rows.        *)
(***************************************************************************)
EXTENDS Integers, Sequences, FiniteSets, TLC

\* Bounds of the model: reserves range over -1..MaxReserve, update times
\* over NO_UPDATE_TIME..MaxTime.
MaxReserve == 1
MaxTime == 1

None == "None"
\* No V2State constructed yet: an instance without any attribute.
NoObj == << >>

\* str.lower() on one character, over the alphabet the model's strings use.
LowerChar(c) ==
    CASE c = "A" -> "a"
      [] c = "B" -> "b"
      [] c = "C" -> "c"
      [] c = "F" -> "f"
      [] c = "N" -> "n"
      [] c = "P" -> "p"
      [] c = "T" -> "t"
      [] c = "U" -> "u"
      [] c = "X" -> "x"
      [] OTHER -> c

\* str.lower()
Lower(s) == [i \in DOMAIN s |-> LowerChar(s[i])]

NO_UPDATE_TX ==
    << "N", "o", " ", "U", "p", "d", "a", "t", "e", " ",
       "T", "r", "a", "n", "s", "a", "c", "t", "i", "o", "n", " ",
       "P", "r", "o", "v", "i", "d", "e", "d" >>
NO_UPDATE_TIME == 0

\* The ten annotated attributes of V2State, in the order __new__ sets them.
FieldOrder ==
    << "token0_addr", "token0_decimals", "token1_addr", "token1_decimals",
       "pool_addr", "k_invar", "reserve0", "reserve1", "update_tx",
       "update_time" >>
Fields == {FieldOrder[i] : i \in DOMAIN FieldOrder}

\* The six annotated identity attributes of V2Pool.
PoolFields ==
    { "token0_addr", "token0_decimals", "token1_addr", "token1_decimals",
      "pool_addr", "k_invar" }

\* Argument values the callers of the model pass.
AddrIn == { << "0", "X", "A", "b" >>, << "0", "x", "c", "F" >> }
Token1In == { << "0", "x", "B", "B" >> }
PoolAddrIn == { << "0", "x", "P", "1" >> }
DecimalsIn == { 18 }
KIn == { 0, 1 }
ReserveIn == (0 - 1) .. MaxReserve
TxIn == { << "0", "x", "A", "1" >>, NO_UPDATE_TX }
TimeIn == NO_UPDATE_TIME .. MaxTime

\* The values a caller may try to write to an attribute of a V2State.
ValuesFor(name) ==
    CASE name = "token0_addr" -> AddrIn
      [] name = "token1_addr" -> Token1In \cup AddrIn
      [] name = "pool_addr" -> PoolAddrIn \cup AddrIn
      [] name = "update_tx" -> TxIn
      [] name = "update_time" -> TimeIn
      [] name \in {"reserve0", "reserve1"} -> ReserveIn
      [] name = "k_invar" -> KIn
      [] name \in {"token0_decimals", "token1_decimals"} -> { 6, 18 }
      [] OTHER -> { 0 }

VARIABLES
    pool,        \* the V2Pool instance's identity attributes
    _df,         \* V2Pool._df
    last_state,  \* V2Pool.last_state
    obj,         \* the V2State the caller holds, or NoObj
    call         \* the last call made and how it ended

vars == << pool, _df, last_state, obj, call >>

(***************************************************************************)
(* Python and Polars primitives the two classes use                        *)
(***************************************************************************)

\* object.__new__(cls): an instance with no attribute of its own.
EmptyInstance == [n \in {} |-> None]

\* object.__setattr__: a plain attribute assignment.
Assign(self, name, value) ==
    [n \in (DOMAIN self) \cup {name} |-> IF n = name THEN value ELSE self[n]]

Abs(n) == IF n < 0 THEN 0 - n ELSE n

RECURSIVE GCD(_, _)
GCD(a, b) == IF b = 0 THEN a ELSE GCD(b, a % b)

\* int / int: ZeroDivisionError on a zero divisor, else the quotient, kept as
\* the fraction <<numerator, denominator>> in lowest terms, denominator > 0.
TrueDiv(a, b) ==
    IF b = 0
    THEN [raised |-> "ZeroDivisionError", ret |-> None]
    ELSE LET g == GCD(Abs(a), Abs(b))
             s == IF b < 0 THEN 0 - 1 ELSE 1
         IN  [raised |-> "none", ret |-> << (s * a) \div g, (s * b) \div g >>]

\* The dtype Polars infers for a Python scalar.
InferDtype(pytype) ==
    CASE pytype = "int" -> "Int64"
      [] pytype = "str" -> "String"
      [] pytype = "datetime" -> "Datetime"

\* pl.DataFrame(schema = {...}): a frame of the given columns and no row.
pl_DataFrame_schema(columns, dtypes) ==
    [columns |-> columns, dtypes |-> dtypes, rows |-> << >>]

\* pl.DataFrame(data), data a dict of scalars: one row, a column per key in
\* the dict's order. data is a sequence of <<key, value, Python type>>.
pl_DataFrame(data) ==
    [columns |-> [i \in DOMAIN data |-> data[i][1]],
     dtypes  |-> [i \in DOMAIN data |-> InferDtype(data[i][3])],
     rows    |-> << [i \in DOMAIN data |-> data[i][2]] >>]

\* pl.concat(items, *, how = "vertical", ...): items is the only positional
\* parameter, so a call with any other number of positional arguments raises
\* TypeError before anything is concatenated. A vertical concatenation of
\* two frames wants the same columns and the same dtypes.
pl_concat(args) ==
    IF Len(args) # 1
    THEN [raised |-> "TypeError", ret |-> None]
    ELSE LET items == args[1] IN
         IF Len(items) # 2
         THEN [raised |-> "ValueError", ret |-> None]
         ELSE IF items[1].columns # items[2].columns
         THEN [raised |-> "ShapeError", ret |-> None]
         ELSE IF items[1].dtypes # items[2].dtypes
         THEN [raised |-> "SchemaError", ret |-> None]
         ELSE [raised |-> "none",
               ret |-> [columns |-> items[1].columns,
                        dtypes  |-> items[1].dtypes,
                        rows    |-> items[1].rows \o items[2].rows]]

(***************************************************************************)
(* class V2State                                                           *)
(***************************************************************************)

\* What the class itself defines: hasattr finds these on every instance.
ClassAttrs == { "__new__", "__setattr__", "__repr__", "__eq__", "get_price" }

hasattr(self, name) == name \in DOMAIN self \/ name \in ClassAttrs

\* __setattr__ without its hasattr guard: every assignment goes through.
setattr_unguarded(self, name, value) ==
    [raised |-> "none", obj |-> Assign(self, name, value)]

\* V2State.__setattr__
__setattr__(self, name, value) ==
    IF hasattr(self, name)
    THEN [raised |-> "AttributeError", obj |-> self]
    ELSE [raised |-> "none", obj |-> Assign(self, name, value)]

\* The assignments of __new__ from the i-th on, each through __setattr__.
RECURSIVE SetFrom(_, _, _)
SetFrom(self, vals, i) ==
    IF i > Len(FieldOrder)
    THEN [raised |-> "none", obj |-> self]
    ELSE LET r == __setattr__(self, FieldOrder[i], vals[FieldOrder[i]])
         IN  IF r.raised # "none" THEN r ELSE SetFrom(r.obj, vals, i + 1)

\* V2State.__new__
V2State__new__(token0_addr, token0_decimals, token1_addr, token1_decimals, pool_addr, k_invar, reserve0, reserve1, update_tx, update_time) ==
    SetFrom(EmptyInstance,
            [token0_addr     |-> Lower(token0_addr),
             token0_decimals |-> token0_decimals,
             token1_addr     |-> Lower(token1_addr),
             token1_decimals |-> token1_decimals,
             pool_addr       |-> Lower(pool_addr),
             k_invar         |-> k_invar,
             reserve0        |-> reserve0,
             reserve1        |-> reserve1,
             update_tx       |-> Lower(update_tx),
             update_time     |-> update_time],
            1)

\* get_price with the two reserves exchanged.
get_price_swapped(self) == TrueDiv(self["reserve0"], self["reserve1"])

\* V2State.get_price
get_price(self) == TrueDiv(self["reserve1"], self["reserve0"])

(***************************************************************************)
(* class V2Pool                                                            *)
(***************************************************************************)

\* V2Pool.__init__: the attributes it assigns, the empty history and its
\* clone.
V2Pool__init__ ==
    LET a1 == Assign(EmptyInstance, "pool_addr", None)
        a2 == Assign(a1, "token0_addr", None)
        a3 == Assign(a2, "token1_addr", None)
        a4 == Assign(a3, "token1_decimals", None)
        a5 == Assign(a4, "pool_addr", None)
        a6 == Assign(a5, "k_invar", None)
        df == pl_DataFrame_schema(
                  << "reserve0", "reserve1", "update_tx", "update_time" >>,
                  << "Decimal", "Decimal", "String", "Datetime" >>)
    IN  [attrs |-> a6, df |-> df, last_state |-> df]

\* V2Pool.get_dataframe
get_dataframe(df) == df

\* V2Pool.add_state: last_state is assigned before pl.concat is called, so
\* it keeps the new frame when the call raises; _df is assigned only when
\* pl.concat returns.
add_state(df, new_state) ==
    LET data == << << "reserve0", new_state["reserve0"], "int" >>,
                   << "reserve_1", new_state["reserve1"], "int" >>,
                   << "update_tx", new_state["update_tx"], "str" >>,
                   << "update_time", new_state["update_time"], "datetime" >> >>
        last == pl_DataFrame(data)
        c == pl_concat(<< df, last >>)
    IN  IF c.raised # "none"
        THEN [raised |-> c.raised, ret |-> None, df |-> df, last_state |-> last]
        ELSE [raised |-> "none", ret |-> new_state, df |-> c.ret,
              last_state |-> last]

(***************************************************************************)
(* The state machine: one pool, one V2State in the caller's hands          *)
(***************************************************************************)

HasObj == DOMAIN obj # {}

\* The record of a call: ret is the tuple of what it returned, empty when it
\* returned None or raised.
Call(op, name, raised, ret) ==
    [op |-> op, name |-> name, raised |-> raised, ret |-> ret]

\* What the call with outcome r returned.
Returned(r) == IF r.raised = "none" THEN << r.ret >> ELSE << >>

Init ==
    /\ pool = V2Pool__init__.attrs
    /\ _df = V2Pool__init__.df
    /\ last_state = V2Pool__init__.last_state
    /\ obj = NoObj
    /\ call = Call("V2Pool", "", "none", << >>)

\* pool = V2Pool()
NewPool ==
    /\ pool' = V2Pool__init__.attrs
    /\ _df' = V2Pool__init__.df
    /\ last_state' = V2Pool__init__.last_state
    /\ call' = Call("V2Pool", "", "none", << >>)
    /\ UNCHANGED obj

\* Every V2State(...) call the model makes, with how it ends.
Constructions ==
    { V2State__new__(t0, d0, t1, d1, pa, k, r0, r1, tx, tm) :
        t0 \in AddrIn, d0 \in DecimalsIn, t1 \in Token1In, d1 \in DecimalsIn,
        pa \in PoolAddrIn, k \in KIn, r0 \in ReserveIn, r1 \in ReserveIn,
        tx \in TxIn, tm \in TimeIn }

\* obj = V2State(...)
NewState ==
    \E r \in Constructions :
        /\ obj' = IF r.raised = "none" THEN r.obj ELSE obj
        /\ call' = Call("V2State", "", r.raised, << >>)
        /\ UNCHANGED << pool, _df, last_state >>

\* obj.name = value
SetAttr ==
    /\ HasObj
    /\ \E name \in Fields \cup { "note", "get_price" } :
       \E value \in ValuesFor(name) :
        LET r == __setattr__(obj, name, value)
        IN  /\ obj' = r.obj
            /\ call' = Call("setattr", name, r.raised, << >>)
            /\ UNCHANGED << pool, _df, last_state >>

\* obj.get_price()
GetPrice ==
    /\ HasObj
    /\ LET r == get_price(obj)
       IN  call' = Call("get_price", "", r.raised, Returned(r))
    /\ UNCHANGED << pool, _df, last_state, obj >>

\* pool.get_dataframe()
GetDataframe ==
    /\ call' = Call("get_dataframe", "", "none", << get_dataframe(_df) >>)
    /\ UNCHANGED << pool, _df, last_state, obj >>

\* pool.add_state(obj)
AddState ==
    /\ HasObj
    /\ LET r == add_state(_df, obj)
       IN  /\ _df' = r.df
           /\ last_state' = r.last_state
           /\ call' = Call("add_state", "", r.raised, Returned(r))
    /\ UNCHANGED << pool, obj >>

\* The pool and the states handed to it.
Next ==
    \/ NewPool
    \/ NewState
    \/ GetDataframe
    \/ AddState

Spec == Init /\ [][Next]_vars

\* One V2State and the calls made on it. The pool plays no part: no method
\* of V2State reads it, and add_state reads only reserve0, reserve1,
\* update_tx and update_time, which no call on a V2State changes.
NextState ==
    \/ NewState
    \/ SetAttr
    \/ GetPrice

StateSpec == Init /\ [][NextState]_vars

(***************************************************************************)
(* The claims                                                              *)
(***************************************************************************)

\* The row of the history that stands for the state s.
RowOf(s) == << s["reserve0"], s["reserve1"], s["update_tx"], s["update_time"] >>

\* The five identity fields a state shares with its pool.
IdentityFields ==
    { "token0_addr", "token0_decimals", "token1_addr", "token1_decimals",
      "pool_addr" }

\* The pool has every identity field, none of them None, each equal to s's.
PoolIdentityMatches(s) ==
    \A f \in IdentityFields :
        f \in DOMAIN pool /\ pool[f] # None /\ pool[f] = s[f]

\* C1: after add_state(s) the call has returned, the history ends with s's
\* row, and last_state is that row: reading reserve0, reserve1, update_tx
\* and update_time from it gives s's values.
C1_AppendThenLatest ==
    call.op = "add_state" =>
        /\ call.raised = "none"
        /\ Len(_df.rows) > 0
        /\ _df.rows[Len(_df.rows)] = RowOf(obj)
        /\ last_state.columns = _df.columns
        /\ last_state.rows = << RowOf(obj) >>

\* C2: an add_state that raises leaves the history and last_state as they
\* were before the call, and when there is a history last_state is its last
\* row.
C2_AllOrNothing ==
    [][ /\ (call'.op = "add_state" /\ call'.raised # "none") =>
              (_df' = _df /\ last_state' = last_state)
        /\ Len(_df'.rows) > 0 =>
              last_state'.rows = << _df'.rows[Len(_df'.rows)] >>
      ]_vars

\* C3: the history is ordered by update_time, and an add_state of a state
\* older than the most recent entry raises OutOfOrderError and stores
\* nothing.
C3_OrderedByTime ==
    [][ /\ \A i \in 1 .. Len(_df'.rows) - 1 :
              _df'.rows[i][4] <= _df'.rows[i + 1][4]
        /\ ( /\ call'.op = "add_state"
             /\ Len(last_state.rows) > 0
             /\ obj["update_time"] < last_state.rows[1][4] ) =>
              ( /\ call'.raised = "OutOfOrderError"
                /\ _df' = _df
                /\ last_state' = last_state )
      ]_vars

C5_Immutable ==
    [][ /\ call'.op = "V2State" =>
              (call'.raised = "none" /\ Fields \subseteq DOMAIN obj')
        /\ (call'.op = "setattr" /\ call'.name \in Fields) =>
              (call'.raised = "AttributeError" /\ obj' = obj)
      ]_vars

\* C5's case: an assignment to one of the ten fields of a constructed state
\* has just been refused.
C5_Witness ==
    /\ call.op = "setattr"
    /\ call.name \in Fields
    /\ call.raised = "AttributeError"
    /\ Fields \subseteq DOMAIN obj

\* C6: an add_state of a state whose identity fields are not the pool's
\* raises and stores nothing, neither in the history nor in last_state.
C6_IdentityValidated ==
    [][ (call'.op = "add_state" /\ ~PoolIdentityMatches(obj)) =>
            ( /\ call'.raised # "none"
              /\ _df' = _df
              /\ last_state' = last_state )
      ]_vars

\* C7: no V2State has a negative reserve, and no row of the history or of
\* last_state has one.
C7_ReservesNonNegative ==
    /\ HasObj => (obj["reserve0"] >= 0 /\ obj["reserve1"] >= 0)
    /\ \A i \in DOMAIN _df.rows :
          _df.rows[i][1] >= 0 /\ _df.rows[i][2] >= 0
    /\ \A i \in DOMAIN last_state.rows :
          last_state.rows[i][1] >= 0 /\ last_state.rows[i][2] >= 0

\* C8: get_price changes nothing; with reserve0 = 0 it raises
\* ZeroDivisionError, and with reserve0 > 0 it returns reserve1 / reserve0.
C8_GetPrice ==
    [][ call'.op = "get_price" =>
          /\ UNCHANGED << pool, _df, last_state, obj >>
          /\ obj["reserve0"] = 0 => call'.raised = "ZeroDivisionError"
          /\ obj["reserve0"] > 0 =>
                /\ call'.raised = "none"
                /\ call'.ret[1][2] > 0
                /\ call'.ret[1][1] * obj["reserve0"]
                       = call'.ret[1][2] * obj["reserve1"]
      ]_vars

\* C8's case: the price of the genesis state, both reserves zero, has just
\* been asked for and the call raised.
C8_Witness ==
    /\ call.op = "get_price"
    /\ obj["reserve0"] = 0
    /\ obj["reserve1"] = 0
    /\ call.raised = "ZeroDivisionError"

\* C10: a new V2Pool has its six identity attributes, each None (the code
\* assigns no 0), an empty history and an empty last_state.
C10_FreshPool ==
    call.op = "V2Pool" =>
        /\ \A f \in PoolFields : f \in DOMAIN pool /\ pool[f] = None
        /\ Len(_df.rows) = 0
        /\ Len(last_state.rows) = 0

====
